---- MODULE Spec2Model ----
(***************************************************************************)
(* Model of the chess-tac-toe relay server (src/server.js): the in-memory  *)
(* room registry, the socket.io room subscriptions it relies on, and the   *)
(* four per-connection event handlers (create-room, join-room, action,     *)
(* disconnect).  Strings of the program are sequences of one-character     *)
(* strings so that trim() and toUpperCase() are computed, not assumed.     *)
(***************************************************************************)
EXTENDS FiniteSets, Integers, Sequences, TLC

\* ------------------------------------------------------------------ bounds
NumConns == 3      \* socket ids 1..NumConns may ever connect
NumCodes == 2      \* how many distinct outcomes Math.random() has in makeCode
MaxEvents == 8     \* events (connections included) handled in one run

\* ------------------------------------------------------- program constants
CodeLen == 4       \* makeCode(4)

Conns == 1..NumConns

\* ----------------------------------------------------------- string helpers
LowerSeq == <<"a","b","c","d","e","f","g","h","i","j","k","l","m",
              "n","o","p","q","r","s","t","u","v","w","x","y","z">>
UpperSeq == <<"A","B","C","D","E","F","G","H","I","J","K","L","M",
              "N","O","P","Q","R","S","T","U","V","W","X","Y","Z">>
DigitSeq == <<"0","1","2","3","4","5","6","7","8","9">>
WhiteSpace == {" "}

UpperChar(ch) ==
    IF \E i \in 1..26 : LowerSeq[i] = ch
    THEN UpperSeq[CHOOSE i \in 1..26 : LowerSeq[i] = ch]
    ELSE ch

\* String.prototype.toUpperCase
ToUpperCase(s) == [i \in 1..Len(s) |-> UpperChar(s[i])]

RECURSIVE TrimStart(_)
TrimStart(s) ==
    IF s # <<>> /\ s[1] \in WhiteSpace THEN TrimStart(Tail(s)) ELSE s

RECURSIVE TrimEnd(_)
TrimEnd(s) ==
    IF s # <<>> /\ s[Len(s)] \in WhiteSpace
    THEN TrimEnd(SubSeq(s, 1, Len(s) - 1)) ELSE s

\* String.prototype.trim
Trim(s) == TrimEnd(TrimStart(s))

\* String(code || "").trim().toUpperCase()
NormalizeCode(raw) == ToUpperCase(Trim(raw))

\* ---------------------------------------------------------------- makeCode
\* The base-36 fraction digits Math.random().toString(36) may print after
\* "0." (a bounded sample of them).
Base36Pool == << <<"a","b","3","k","x","7">>,
                 <<"1","2","3","4","q","q">>,
                 <<"z","9","0","f","1","c">>,
                 <<"0","9","1","7","m","2">> >>

\* Math.random().toString(36).slice(2, 2 + len).toUpperCase()
makeCode(len) ==
    { ToUpperCase(SubSeq(Base36Pool[i], 1, len)) : i \in 1..NumCodes }

CodeSpace == makeCode(CodeLen)

\* What clients may send as a room code: a code that makeCode can hand out,
\* typed in lower case with surrounding blanks.
RawInputs ==
    { <<" ">> \o SubSeq(Base36Pool[i], 1, CodeLen) \o <<" ">> : i \in 1..NumCodes }

\* NormalizeCode tabulated over the inputs
NormalizedInput == [raw \in RawInputs |-> NormalizeCode(raw)]

ActionInputs == { [type |-> "swap-sides"], [type |-> "move"] }

\* ------------------------------------------------------------------- state
VARIABLES
    rooms,      \* const rooms = {}: code -> [hostId, players, roles]
    keyOrder,   \* insertion order of the own properties of rooms
    status,     \* per socket id: "idle", "connected", "disconnected"
    subs,       \* socket.io adapter: room code -> sockets that joined it
    out,        \* emissions of the handler that ran last, in order
    last,       \* the event handled last
    handled,    \* number of events handled so far
    swapHist,   \* the run of successful swaps that ends with the last event
    spinning,   \* the socket whose create-room handler is in its retry loop
                \* for ever, 0 when no handler is
    retired     \* the codes of the rooms deleted so far

vars == <<rooms, keyOrder, status, subs, out, last, swapHist, handled,
          spinning, retired>>

Connected == { c \in Conns : status[c] = "connected" }

\* ---------------------------------------------------------- Object.keys
IsDigit(ch) == \E i \in 1..10 : DigitSeq[i] = ch
DigitVal(ch) == (CHOOSE i \in 1..10 : DigitSeq[i] = ch) - 1

\* A property key that is a canonical array index ("1234" but not "0917").
IsIndexKey(k) ==
    /\ k # <<>>
    /\ \A i \in 1..Len(k) : IsDigit(k[i])
    /\ (Len(k) > 1 => k[1] # "0")

RECURSIVE NumVal(_)
NumVal(k) ==
    IF k = <<>> THEN 0
    ELSE 10 * NumVal(SubSeq(k, 1, Len(k) - 1)) + DigitVal(k[Len(k)])

\* IsIndexKey and NumVal tabulated over the codes makeCode can hand out
IndexKeys == { k \in CodeSpace : IsIndexKey(k) }
KeyValue == [k \in IndexKeys |-> NumVal(k)]

RECURSIVE SortedIndexKeys(_)
SortedIndexKeys(S) ==
    IF S = {} THEN <<>>
    ELSE LET m == CHOOSE x \in S : \A y \in S : KeyValue[x] <= KeyValue[y]
         IN  <<m>> \o SortedIndexKeys(S \ {m})

IsNamedKey(k) == k \notin IndexKeys

\* Object.keys(rooms): integer-like keys ascending, then insertion order.
ObjectKeys ==
    SortedIndexKeys((DOMAIN rooms) \cap IndexKeys)
    \o SelectSeq(keyOrder, IsNamedKey)

\* Array.prototype.includes on players
Includes(players, id) == \E i \in 1..Len(players) : players[i] = id

NoCode == <<"-">>

\* getRoomOfSocket(socketId): first room, in key order, that lists the socket
getRoomOfSocket(socketId) ==
    LET ks == ObjectKeys
        hits == { i \in 1..Len(ks) : Includes(rooms[ks[i]].players, socketId) }
    IN  IF hits = {} THEN NoCode
        ELSE ks[CHOOSE i \in hits : \A j \in hits : i <= j]

\* ------------------------------------------------------- socket.io sending
IoToSocket_all(id) == Connected

\* io.to(socketId): the socket's private room
IoToSocket(id) == {id} \cap Connected
\* io.to(code): every socket that joined the code's room
IoToRoom(code) == IF code \in DOMAIN subs THEN subs[code] ELSE {}

Emit(to, ev, payload) == [to |-> to, ev |-> ev, payload |-> payload]

\* socket.join(code)
SocketJoin(s, code, id) ==
    IF code \in DOMAIN s THEN [s EXCEPT ![code] = @ \cup {id}]
    ELSE s @@ (code :> {id})

NoHist == [n |-> 0, code |-> NoCode, base1 |-> <<>>, base2 |-> <<>>]

\* the event being handled: its name, the socket, the normalized room code
\* it names or acts on, and whether the socket was that room's host
Event(ev, c, code) ==
    [ev |-> ev, conn |-> c, code |-> code,
     wasHost |-> code \in DOMAIN rooms /\ rooms[code].hostId = c]

\* -------------------------------------------------------------------- Init
Init ==
    /\ rooms = <<>>
    /\ keyOrder = <<>>
    /\ status = [c \in Conns |-> "idle"]
    /\ subs = [k \in CodeSpace |-> {}]
    /\ out = <<>>
    /\ last = [ev |-> "none", conn |-> 0, code |-> NoCode, wasHost |-> FALSE]
    /\ swapHist = NoHist
    /\ handled = 0
    /\ spinning = 0
    /\ retired = {}

\* io.on("connection")
Connection(c) ==
    /\ status[c] = "idle"
    /\ \A d \in Conns : d < c => status[d] # "idle"
    /\ status' = [status EXCEPT ![c] = "connected"]
    /\ out' = <<>>
    /\ last' = Event("connection", c, NoCode)
    /\ swapHist' = NoHist
    /\ handled < MaxEvents
    /\ spinning = 0
    /\ handled' = handled + 1
    /\ UNCHANGED <<rooms, keyOrder, subs, spinning, retired>>

\* roles[id] = r
SetRole(roles, id, r) ==
    [x \in (DOMAIN roles) \cup {id} |-> IF x = id THEN r ELSE roles[x]]

\* delete roles[id]
DeleteRole(roles, id) == [x \in (DOMAIN roles) \ {id} |-> roles[x]]

\* rooms[code] = room
SetRoom(rs, code, room) ==
    [k \in (DOMAIN rs) \cup {code} |-> IF k = code THEN room ELSE rs[k]]

\* delete rooms[code]
DeleteRoom(rs, code) == [k \in (DOMAIN rs) \ {code} |-> rs[k]]

\* ------------------------------------------------------------- create-room
\* the room object literal of the create-room handler
NewRoom(id) ==
    [hostId |-> id, players |-> <<id>>, roles |-> (id :> "white")]

FreshCodes_noretry == CodeSpace

\* let code = makeCode(4); while (rooms[code]) code = makeCode(4);
\* the codes the retry loop can end on
FreshCodes == { code \in CodeSpace : code \notin DOMAIN rooms }

CreateRoom(c) ==
    /\ status[c] = "connected"
    /\ handled < MaxEvents
    /\ spinning = 0
    /\ handled' = handled + 1
    /\ \E code \in FreshCodes :
          /\ rooms' = SetRoom(rooms, code, NewRoom(c))
          /\ keyOrder' = IF code \in DOMAIN rooms THEN keyOrder
                          ELSE Append(keyOrder, code)
          /\ subs' = SocketJoin(subs, code, c)
          /\ out' = << Emit({c}, "room-created",
                            [roomCode |-> code, role |-> "white"]) >>
          /\ last' = Event("create-room", c, code)
          /\ swapHist' = NoHist
    /\ UNCHANGED <<status, spinning, retired>>

\* while (rooms[code]) code = makeCode(4) with every code a key of rooms:
\* the loop condition stays true, the handler never returns and the single
\* thread of the server handles no further event
CreateStuck(c) ==
    /\ status[c] = "connected"
    /\ handled < MaxEvents
    /\ spinning = 0
    /\ handled' = handled + 1
    /\ FreshCodes = {}
    /\ spinning' = c
    /\ out' = <<>>
    /\ last' = Event("create-room", c, NoCode)
    /\ swapHist' = NoHist
    /\ UNCHANGED <<rooms, keyOrder, status, subs, retired>>

\* --------------------------------------------------------------- join-room
JoinRejected_nocap(code) == code \notin DOMAIN rooms

JoinRejected_gt(code) ==
    \/ code \notin DOMAIN rooms
    \/ Len(rooms[code].players) > 2

\* !rooms[code] || rooms[code].players.length >= 2
JoinRejected(code) ==
    \/ code \notin DOMAIN rooms
    \/ Len(rooms[code].players) >= 2

AddPlayer_nopush(room, id) ==
    [room EXCEPT !.roles = SetRole(@, id, "black")]

\* rooms[code].players.push(socket.id); rooms[code].roles[socket.id] = "black"
AddPlayer(room, id) ==
    [room EXCEPT !.players = Append(@, id),
                 !.roles = SetRole(@, id, "black")]

JoinRoom(c, raw) ==
    LET code == NormalizedInput[raw] IN
    /\ status[c] = "connected"
    /\ handled < MaxEvents
    /\ spinning = 0
    /\ handled' = handled + 1
    /\ IF JoinRejected(code)
       THEN /\ out' = << Emit({c}, "room-error", "Room unavailable") >>
            /\ last' = Event("join-room", c, code)
            /\ UNCHANGED <<rooms, subs>>
       ELSE LET room == AddPlayer(rooms[code], c)
                s2 == SocketJoin(subs, code, c)
            IN  /\ rooms' = [rooms EXCEPT ![code] = room]
                /\ subs' = s2
                /\ out' = << Emit({c}, "room-joined",
                                  [roomCode |-> code, role |-> "black"]),
                             Emit(IoToSocket(room.hostId), "opponent-joined",
                                  [roomCode |-> code]),
                             Emit(s2[code], "room-ready",
                                  [roomCode |-> code, roles |-> room.roles]) >>
                /\ last' = Event("join-room", c, code)
    /\ swapHist' = NoHist
    /\ UNCHANGED <<keyOrder, status, spinning, retired>>

\* ------------------------------------------------------------------ action
OtherRole(r) == IF r = "white" THEN "black" ELSE "white"

\* swapRoomRoles: null unless the room exists with exactly 2 players
SwapEligible(code) ==
    /\ code \in DOMAIN rooms
    /\ Len(rooms[code].players) = 2

SwappedRoles_notemp(room) ==
    LET a == room.players[1]
        b == room.players[2]
        r1 == SetRole(room.roles, a, room.roles[b])
    IN  SetRole(r1, b, r1[a])

\* swapRoomRoles: the two assignments to room.roles, in order
SwappedRoles(room) ==
    LET a == room.players[1]
        b == room.players[2]
        r1 == SetRole(room.roles, a, OtherRole(room.roles[a]))
    IN  SetRole(r1, b, OtherRole(r1[b]))

\* action?.type === "swap-sides"
ActionEvent(action) ==
    IF action.type = "swap-sides" THEN "swap-sides" ELSE "action"

IsMember_any(code, id) == TRUE

\* rooms[roomCode].players.includes(socket.id)
IsMember(code, id) == Includes(rooms[code].players, id)

Action(c, raw, action) ==
    LET roomCode == NormalizedInput[raw] IN
    /\ status[c] = "connected"
    /\ handled < MaxEvents
    /\ spinning = 0
    /\ handled' = handled + 1
    /\ IF roomCode \notin DOMAIN rooms
       THEN /\ out' = <<>>
            /\ last' = Event(ActionEvent(action), c, roomCode)
            /\ swapHist' = NoHist
            /\ UNCHANGED rooms
       ELSE IF ~IsMember(roomCode, c)
       THEN /\ out' = <<>>
            /\ last' = Event(ActionEvent(action), c, roomCode)
            /\ swapHist' = NoHist
            /\ UNCHANGED rooms
       ELSE IF action.type = "swap-sides"
       THEN IF ~SwapEligible(roomCode)
            THEN /\ out' = << Emit(IoToSocket(c), "room-error",
                                   "Need 2 players to swap sides") >>
                 /\ last' = Event("swap-sides", c, roomCode)
                 /\ swapHist' = NoHist
                 /\ UNCHANGED rooms
            ELSE LET roles == SwappedRoles(rooms[roomCode])
                     h == IF swapHist.code = roomCode THEN swapHist ELSE NoHist
                 IN  /\ rooms' = [rooms EXCEPT ![roomCode].roles = roles]
                     /\ out' = << Emit(IoToRoom(roomCode), "roles-updated",
                                       [roomCode |-> roomCode, roles |-> roles]),
                                  Emit(IoToRoom(roomCode), "action",
                                       [type |-> "restart"]) >>
                     /\ last' = Event("swap-sides", c, roomCode)
                     /\ swapHist' = [n |-> IF h.n >= 1 THEN 2 ELSE 1,
                                      code |-> roomCode,
                                      base1 |-> rooms[roomCode].roles,
                                      base2 |-> h.base1]
       ELSE /\ out' = << Emit(IoToRoom(roomCode), "action", action) >>
            /\ last' = Event("action", c, roomCode)
            /\ swapHist' = NoHist
            /\ UNCHANGED rooms
    /\ UNCHANGED <<keyOrder, status, subs, spinning, retired>>

\* -------------------------------------------------------------- disconnect
RemovePlayer_keeprole(room, id) ==
    [room EXCEPT !.players = SelectSeq(@, LAMBDA p : p # id)]

\* players.filter(p => p !== socket.id); delete roles[socket.id]
RemovePlayer(room, id) ==
    [room EXCEPT !.players = SelectSeq(@, LAMBDA p : p # id),
                 !.roles = DeleteRole(@, id)]

PromoteHost_never(room, id) == room

\* if (rooms[code].hostId === socket.id) rooms[code].hostId = rooms[code].players[0]
PromoteHost(room, id) ==
    IF room.hostId = id THEN [room EXCEPT !.hostId = room.players[1]] ELSE room

\* rooms[code].players.length === 0
IsEmptyRoom(room) == Len(room.players) = 0

\* socket.io has already taken the socket out of every room it joined when
\* the "disconnect" event is delivered to the handler.
LeaveAll(s, id) == [k \in DOMAIN s |-> s[k] \ {id}]

Disconnect(c) ==
    LET code == getRoomOfSocket(c)
        s2 == LeaveAll(subs, c)
    IN
    /\ status[c] = "connected"
    /\ handled < MaxEvents
    /\ spinning = 0
    /\ handled' = handled + 1
    /\ status' = [status EXCEPT ![c] = "disconnected"]
    /\ UNCHANGED spinning
    /\ subs' = s2
    /\ IF code = NoCode
       THEN /\ out' = <<>>
            /\ last' = Event("disconnect", c, NoCode)
            /\ swapHist' = NoHist
            /\ UNCHANGED <<rooms, keyOrder, retired>>
       ELSE LET room == RemovePlayer(rooms[code], c) IN
            \* socket.to(code): the code's room except this socket
            /\ out' = << Emit(s2[code] \ {c}, "opponent-left", [roomCode |-> code]) >>
            /\ last' = Event("disconnect", c, code)
            /\ swapHist' = NoHist
            /\ IF IsEmptyRoom(room)
               THEN /\ rooms' = DeleteRoom(rooms, code)
                    /\ keyOrder' = SelectSeq(keyOrder, LAMBDA k : k # code)
                    /\ retired' = retired \cup {code}
               ELSE /\ rooms' = [rooms EXCEPT ![code] = PromoteHost(room, c)]
                    /\ UNCHANGED <<keyOrder, retired>>

\* ------------------------------------------------------------ specification
Next ==
    \/ \E c \in Conns : Connection(c)
    \/ \E c \in Conns : CreateRoom(c)
    \/ \E c \in Conns : CreateStuck(c)
    \/ \E c \in Conns, raw \in RawInputs : JoinRoom(c, raw)
    \/ \E c \in Conns, raw \in RawInputs, action \in ActionInputs : Action(c, raw, action)
    \/ \E c \in Conns : Disconnect(c)

Spec == Init /\ [][Next]_vars

\* ------------------------------------------------------------------ claims
PlayerSet(room) == { room.players[i] : i \in 1..Len(room.players) }

\* how many entries of players hold role r
Holders(room, r) ==
    Cardinality({ i \in 1..Len(room.players) :
                    /\ room.players[i] \in DOMAIN room.roles
                    /\ room.roles[room.players[i]] = r })

\* C1: every room with 2 players has exactly one player holding "white" and
\* exactly one holding "black"; every room with 1 player has that player
\* holding exactly one role.
RolesWellFormed ==
    \A k \in DOMAIN rooms :
        LET room == rooms[k] IN
        /\ Len(room.players) = 2 =>
              Holders(room, "white") = 1 /\ Holders(room, "black") = 1
        /\ Len(room.players) = 1 =>
              Holders(room, "white") + Holders(room, "black") = 1

\* C2: a connection is a player of at most one room, and appears at most once
\* in the players of that room.
AtMostOneRoom ==
    /\ \A c \in Conns :
          Cardinality({ k \in DOMAIN rooms : Includes(rooms[k].players, c) }) <= 1
    /\ \A k \in DOMAIN rooms :
          Cardinality(PlayerSet(rooms[k])) = Len(rooms[k].players)

\* C3: every room in the registry has 1 or 2 entries in players.
PlayersOneOrTwo ==
    \A k \in DOMAIN rooms : Len(rooms[k].players) \in {1, 2}

\* a full room exists, and the last member of another room has just left, so
\* that its room was deleted
PlayersOneOrTwoWitness ==
    /\ last.ev = "disconnect"
    /\ last.code \in CodeSpace
    /\ last.code \notin DOMAIN rooms
    /\ \E k \in DOMAIN rooms : Len(rooms[k].players) = 2

\* C4: for every room the keys of roles are exactly the connection ids in
\* players.
RolesKeysArePlayers ==
    \A k \in DOMAIN rooms : DOMAIN rooms[k].roles = PlayerSet(rooms[k])

\* one of two distinct members has just left and the other one remains
RolesKeysArePlayersWitness ==
    /\ last.ev = "disconnect"
    /\ last.code \in DOMAIN rooms
    /\ Len(rooms[last.code].players) = 1
    /\ ~last.wasHost
    /\ out[1].to = PlayerSet(rooms[last.code])

\* C5: for every room, hostId is one of the connection ids in players.
HostIsPlayer ==
    \A k \in DOMAIN rooms : Includes(rooms[k].players, rooms[k].hostId)

\* the host has just left a room whose other member remains
HostIsPlayerWitness ==
    /\ last.ev = "disconnect"
    /\ last.wasHost
    /\ last.code \in DOMAIN rooms
    /\ rooms[last.code].hostId # last.conn
    /\ rooms[last.code].hostId = rooms[last.code].players[1]

\* the positions of out that carry event ev
Emitted(o, ev) == { i \in 1..Len(o) : o[i].ev = ev }

\* C6: every create-room event from connection c adds exactly one room whose
\* players is [c], whose hostId is c and whose roles is {c: "white"}, leaves
\* the other rooms alone, and emits room-created with that room's code and
\* role "white" to c and to no other connection.
CreateRoomEffect ==
    [][ last'.ev = "create-room" =>
          LET c == last'.conn
              code == last'.code
          IN  /\ code \notin DOMAIN rooms
              /\ DOMAIN rooms' = (DOMAIN rooms) \cup {code}
              /\ \A k \in DOMAIN rooms : rooms'[k] = rooms[k]
              /\ rooms'[code].players = <<c>>
              /\ rooms'[code].hostId = c
              /\ DOMAIN rooms'[code].roles = {c}
              /\ rooms'[code].roles[c] = "white"
              /\ out' = << [to |-> {c}, ev |-> "room-created",
                            payload |-> [roomCode |-> code, role |-> "white"]] >>
      ]_vars

\* C7: a join-room by connection j on a room that exists and has exactly 1
\* player succeeds: j is appended as second player with role "black", j
\* receives room-joined with role "black", the room's host and only the host
\* receives opponent-joined, and both members receive one room-ready carrying
\* the roles mapping of both players.
JoinSucceeds ==
    [][ ( /\ last'.ev = "join-room"
          /\ last'.code \in DOMAIN rooms
          /\ Len(rooms[last'.code].players) = 1 ) =>
          LET j == last'.conn
              k == last'.code
              o == out'
          IN  /\ rooms'[k].players = Append(rooms[k].players, j)
              /\ j \in DOMAIN rooms'[k].roles
              /\ rooms'[k].roles[j] = "black"
              /\ \E i \in 1..Len(o) :
                    /\ Emitted(o, "room-joined") = {i}
                    /\ o[i].to = {j}
                    /\ o[i].payload = [roomCode |-> k, role |-> "black"]
              /\ \E i \in 1..Len(o) :
                    /\ Emitted(o, "opponent-joined") = {i}
                    /\ o[i].to = {rooms'[k].hostId}
              /\ \E i \in 1..Len(o) :
                    /\ Emitted(o, "room-ready") = {i}
                    /\ o[i].to = PlayerSet(rooms'[k])
                    /\ o[i].payload = [roomCode |-> k, roles |-> rooms'[k].roles]
              /\ Emitted(o, "room-error") = {}
      ]_vars

\* C8: a join-room whose normalized code names no existing room, or a room
\* that already has 2 players, emits room-error to the requester only and
\* leaves the whole registry unchanged.
JoinRejectedEffect ==
    [][ ( /\ last'.ev = "join-room"
          /\ \/ last'.code \notin DOMAIN rooms
             \/ Len(rooms[last'.code].players) = 2 ) =>
          /\ rooms' = rooms
          /\ keyOrder' = keyOrder
          /\ out' = << [to |-> {last'.conn}, ev |-> "room-error",
                        payload |-> "Room unavailable"] >>
      ]_vars

\* a third connection has just been turned away from a full room
JoinRejectedWitness ==
    /\ last.ev = "join-room"
    /\ last.code \in DOMAIN rooms
    /\ Len(rooms[last.code].players) = 2
    /\ ~Includes(rooms[last.code].players, last.conn)
    /\ Len(out) = 1
    /\ out[1].ev = "room-error"
    /\ out[1].to = {last.conn}

\* C9: a swap-sides sent by a member of a room with exactly 2 players
\* exchanges the two members' roles: afterwards each member holds the role
\* the other member held immediately before.
SwapExchanges ==
    [][ ( /\ last'.ev = "swap-sides"
          /\ last'.code \in DOMAIN rooms
          /\ Len(rooms[last'.code].players) = 2
          /\ Includes(rooms[last'.code].players, last'.conn) ) =>
          LET k == last'.code
              a == rooms[k].players[1]
              b == rooms[k].players[2]
          IN  /\ rooms'[k].roles[a] = rooms[k].roles[b]
              /\ rooms'[k].roles[b] = rooms[k].roles[a]
      ]_vars

\* C10: two consecutive swap-sides on the same 2-player room restore the
\* roles mapping to what it was before the first swap.  The first conjunct
\* is about the swaps the handler has run back to back; the second applies
\* the swap twice to every 2-player room the registry can hold, whatever was
\* handled for other rooms in between.
DoubleSwapRestores ==
    /\ swapHist.n = 2 =>
          /\ swapHist.code \in DOMAIN rooms
          /\ rooms[swapHist.code].roles = swapHist.base2
    /\ \A k \in DOMAIN rooms :
          Len(rooms[k].players) = 2 =>
              SwappedRoles([rooms[k] EXCEPT !.roles = SwappedRoles(rooms[k])])
                  = rooms[k].roles

\* two swaps have just run back to back on a room of two distinct members
DoubleSwapWitness ==
    /\ swapHist.n = 2
    /\ last.ev = "swap-sides"
    /\ Cardinality(PlayerSet(rooms[swapHist.code])) = 2
    /\ swapHist.base1 # swapHist.base2
    /\ Len(out) = 2

\* C11: for every eligible swap-sides (room with exactly 2 players) each of
\* the two members receives one roles-updated carrying the new roles mapping
\* and then one action of type "restart", in that order, and no one receives
\* the swap-sides payload.
SwapBroadcast ==
    [][ ( /\ last'.ev = "swap-sides"
          /\ last'.code \in DOMAIN rooms
          /\ Len(rooms[last'.code].players) = 2
          /\ Includes(rooms[last'.code].players, last'.conn) ) =>
          LET k == last'.code
              o == out'
          IN  /\ \A m \in PlayerSet(rooms[k]) :
                    \E i, j \in 1..Len(o) :
                       /\ i < j
                       /\ { x \in Emitted(o, "roles-updated") : m \in o[x].to } = {i}
                       /\ o[i].payload = [roomCode |-> k, roles |-> rooms'[k].roles]
                       /\ { x \in Emitted(o, "action") : m \in o[x].to } = {j}
                       /\ o[j].payload = [type |-> "restart"]
              /\ \A x \in Emitted(o, "action") : o[x].payload.type # "swap-sides"
      ]_vars

\* C12 as stated: a swap-sides targeting a room with 0 players (no such
\* room) or 1 player fails: room-error is emitted to the requesting
\* connection and to no one else, no roles-updated or restart is emitted, and
\* all room state is unchanged.
SwapIneligibleReported ==
    [][ ( /\ last'.ev = "swap-sides"
          /\ \/ last'.code \notin DOMAIN rooms
             \/ Len(rooms[last'.code].players) = 1 ) =>
          /\ Len(out') = 1
          /\ out'[1].ev = "room-error"
          /\ out'[1].to = {last'.conn}
          /\ rooms' = rooms
          /\ keyOrder' = keyOrder
      ]_vars

\* C12 amended: a swap-sides sent by a member of a room with 1 player fails
\* with room-error to the requester only; a swap-sides that names no room,
\* or a 1-player room the sender is not a player of, is dropped without any
\* message.  Either way nothing is broadcast and room state is unchanged.
SwapIneligible ==
    [][ ( /\ last'.ev = "swap-sides"
          /\ \/ last'.code \notin DOMAIN rooms
             \/ Len(rooms[last'.code].players) = 1 ) =>
          /\ IF /\ last'.code \in DOMAIN rooms
                /\ Includes(rooms[last'.code].players, last'.conn)
             THEN /\ Len(out') = 1
                  /\ out'[1].ev = "room-error"
                  /\ out'[1].to = {last'.conn}
             ELSE out' = <<>>
          /\ rooms' = rooms
          /\ keyOrder' = keyOrder
      ]_vars

\* the sole member of a room has just asked to swap sides while another
\* socket is connected
SwapIneligibleWitness ==
    /\ last.ev = "swap-sides"
    /\ last.code \in DOMAIN rooms
    /\ rooms[last.code].players = <<last.conn>>
    /\ Len(out) = 1
    /\ out[1].ev = "room-error"
    /\ out[1].to = {last.conn}
    /\ Connected # {last.conn}

\* C13: every action whose type is not swap-sides, sent by a member of a
\* 2-player room, is delivered exactly once and unmodified to each of the
\* two members, the sender included, and room state is unchanged.
RelayDelivers ==
    [][ ( /\ last'.ev = "action"
          /\ last'.code \in DOMAIN rooms
          /\ Len(rooms[last'.code].players) = 2
          /\ Includes(rooms[last'.code].players, last'.conn) ) =>
          /\ Len(out') = 1
          /\ out'[1].ev = "action"
          /\ out'[1].payload \in ActionInputs
          /\ out'[1].payload.type # "swap-sides"
          /\ out'[1].to = PlayerSet(rooms[last'.code])
          /\ rooms' = rooms
          /\ keyOrder' = keyOrder
      ]_vars

InNoRoom(id) == \A k \in DOMAIN rooms : ~Includes(rooms[k].players, id)

\* C14: an action from a connection that is not a player of the named room,
\* an action naming an unknown room, and a disconnect of a connection that
\* is in no room emit no message and leave the whole registry unchanged.
SilentNoOps ==
    [][ ( \/ /\ last'.ev \in {"action", "swap-sides"}
             /\ \/ last'.code \notin DOMAIN rooms
                \/ ~Includes(rooms[last'.code].players, last'.conn)
          \/ /\ last'.ev = "disconnect"
             /\ InNoRoom(last'.conn) ) =>
          /\ out' = <<>>
          /\ rooms' = rooms
          /\ keyOrder' = keyOrder
      ]_vars

\* a connected socket that belongs to another room has just sent an action
\* to a full room it is not a player of
SilentNoOpsWitness ==
    /\ last.ev = "action"
    /\ last.code \in DOMAIN rooms
    /\ Len(rooms[last.code].players) = 2
    /\ ~Includes(rooms[last.code].players, last.conn)
    /\ ~InNoRoom(last.conn)
    /\ out = <<>>

\* C15: when the only member of a room disconnects, that room is removed
\* from the registry and no opponent-left is delivered to anyone, for every
\* room in which the connection was the only member; a later join-room to a
\* code without a room fails with room-error.
OnlyMemberLeaves ==
    [][ /\ last'.ev = "disconnect" =>
             \A k \in DOMAIN rooms :
                PlayerSet(rooms[k]) = {last'.conn} =>
                   /\ k \notin DOMAIN rooms'
                   /\ \A i \in Emitted(out', "opponent-left") : out'[i].to = {}
        /\ (last'.ev = "join-room" /\ last'.code \notin DOMAIN rooms) =>
             /\ Emitted(out', "room-error") # {}
             /\ rooms' = rooms
      ]_vars

\* C16: when one of the two members of a room disconnects, the remaining
\* member receives exactly one opponent-left for that room, the room stays
\* with exactly that player and that player's role entry, and hostId becomes
\* the remaining member if the departed member was host.
OneOfTwoLeaves ==
    [][ last'.ev = "disconnect" =>
          \A k \in DOMAIN rooms :
             ( /\ Len(rooms[k].players) = 2
               /\ Cardinality(PlayerSet(rooms[k])) = 2
               /\ last'.conn \in PlayerSet(rooms[k]) ) =>
                LET c == last'.conn
                    r == CHOOSE x \in PlayerSet(rooms[k]) : x # c
                    o == out'
                IN  /\ k \in DOMAIN rooms'
                    /\ rooms'[k].players = <<r>>
                    /\ DOMAIN rooms'[k].roles = {r}
                    /\ rooms'[k].roles[r] = rooms[k].roles[r]
                    /\ rooms'[k].hostId =
                          (IF rooms[k].hostId = c THEN r ELSE rooms[k].hostId)
                    /\ \E i \in 1..Len(o) :
                          /\ { x \in Emitted(o, "opponent-left") : r \in o[x].to } = {i}
                          /\ o[i].payload = [roomCode |-> k]
      ]_vars

\* C19: once a connection's disconnect has been handled, its id appears in
\* the players, roles and hostId of no room; once every connection has
\* disconnected the registry is empty.
DisconnectedGone ==
    /\ \A c \in Conns :
          status[c] = "disconnected" =>
             \A k \in DOMAIN rooms :
                /\ ~Includes(rooms[k].players, c)
                /\ c \notin DOMAIN rooms[k].roles
                /\ rooms[k].hostId # c
    /\ (\A c \in Conns : status[c] = "disconnected") => DOMAIN rooms = {}

\* C17: create-room never allocates a code that is currently a key of the
\* registry: the codes of the live rooms are pairwise distinct, creating a
\* room leaves every existing room as it was, and a code that was handed out
\* before is handed out again only once its earlier room has been deleted.
CodesUnique ==
    [][ /\ last'.ev = "create-room" =>
             /\ \A k \in DOMAIN rooms :
                   k \in DOMAIN rooms' /\ rooms'[k] = rooms[k]
             /\ last'.code # NoCode =>
                   /\ last'.code \notin DOMAIN rooms
                   /\ last'.code \in (DOMAIN rooms) \cup retired =>
                         last'.code \in retired
                   /\ keyOrder' = Append(keyOrder, last'.code)
        /\ Len(keyOrder') = Cardinality(DOMAIN rooms')
        /\ { keyOrder'[i] : i \in 1..Len(keyOrder') } = DOMAIN rooms'
      ]_vars

\* a room has just been created under the code of a deleted room, next to a
\* room that has lived all the while
CodesUniqueWitness ==
    /\ last.ev = "create-room"
    /\ last.code \in retired
    /\ last.code \in DOMAIN rooms
    /\ rooms[last.code].players = <<last.conn>>
    /\ Cardinality(DOMAIN rooms) = 2

\* C18: every create-room event terminates and returns a code, whatever the
\* registry holds: no create-room handler stays in its retry loop.
CreateTerminates == spinning = 0

\* the events emitted to a room code's broadcast group
RoomScoped == {"room-ready", "action", "roles-updated", "opponent-left"}

\* C20: the sockets subscribed to a room code's broadcast group are always
\* players of the room that code names (none when it names no room), and
\* every room-scoped message goes only to players of that room, also after
\* the code of a deleted room has been given to a new room.
SubsArePlayers ==
    /\ \A k \in DOMAIN subs :
          subs[k] \subseteq (IF k \in DOMAIN rooms THEN PlayerSet(rooms[k]) ELSE {})
    /\ \A i \in 1..Len(out) :
          out[i].ev \in RoomScoped =>
             out[i].to \subseteq (IF last.code \in DOMAIN rooms
                                  THEN PlayerSet(rooms[last.code]) ELSE {})

\* room-ready has just gone to the two players of a room whose code belonged
\* to a deleted room before, and to nobody else
SubsArePlayersWitness ==
    /\ last.ev = "join-room"
    /\ last.code \in retired
    /\ Len(out) = 3
    /\ out[3].ev = "room-ready"
    /\ Cardinality(out[3].to) = 2
    /\ out[3].to = PlayerSet(rooms[last.code])
    /\ subs[last.code] = out[3].to

====
